---- MODULE Spec2Model ----
(***************************************************************************)
(* Model of the two event handlers of the job-search flow:                 *)
(*   steps/parse-query.step.py          (Query Processor)                   *)
(*   steps/generate-variations.step.py  (Generate Email Variations)         *)
(* Every store call, adapter call and emit is one atomic step; the steps   *)
(* of different handler invocations interleave freely.                     *)
(***************************************************************************)
EXTENDS Integers, Sequences, FiniteSets, TLC

\* ------------------------------------------------------------------------
\* Bounds and input domains
\* ------------------------------------------------------------------------
MaxEmails == 2

EmailRows == 1..MaxEmails

\* invocations of the variation handler (one per trigger event)
Handlers == {1, 2}

\* leads that exist in the leads table; an email may also refer to lead 0
\* (no lead_id) or to DanglingLead (no such row)
LeadIds == {1}

DanglingLead == 2

LeadRefs == {0} \cup LeadIds \cup {DanglingLead}

NoBody == <<>>

MaxJobs == 1

JobIds == 1..MaxJobs

\* a jobId that has no row in the jobs table
UnknownJob == MaxJobs + 1

\* deliveries of job.query.received (the bus delivers at least once)
Deliveries == {1, 2}

\* a nullable column or local: None, or Some(v)
None == <<>>

Some(v) == <<v>>

NoResult == [none |-> TRUE]

VARIABLES
  configured,       \* SUPABASE_URL and SUPABASE_ANON_KEY are both set
  emails,           \* emails table: row -> record
  leads,            \* leads table: lead id -> job_description
  pc,               \* position of each variation-handler invocation
  email_response,   \* rows returned by the batch select (a sequence)
  idx,              \* position of the for loop in email_response
  job_description,  \* job description used for the current email
  bodies,           \* variations generated so far for the current email
  processed_count,
  trace,            \* operations the invocation performed, in order
  result,           \* what the invocation returned
  variations_generated, \* payloads of the events the invocation emitted, in order
  jobs,             \* jobs table: job id -> record
  qpc,              \* position of each query-handler invocation
  args,             \* the event each invocation received
  parsed_query,     \* the JobQuery of the invocation (None before extraction)
  qtrace,           \* store, adapter and emit operations of the invocation
  emitted,          \* job.query.processed payloads the invocation emitted
  returned,         \* the value the invocation returned (None if none)
  raised            \* the exception that left the invocation (None if none)

qpvars == <<jobs, qpc, args, parsed_query, qtrace, emitted, returned, raised>>

vgvars == <<emails, leads, pc, email_response, idx, job_description, bodies,
            processed_count, trace, result,
           variations_generated>>

\* ------------------------------------------------------------------------
\* Generate Email Variations
\* ------------------------------------------------------------------------
subscribes == {"email.approval.required", "email.schedule.completed"}

\* Python truthiness of an id column (None and 0 are falsy)
TruthyId(x) == x # 0

\* Python truthiness of a text column (None and "" are falsy)
TruthyText(s) == s # ""

Op(kind, email, ok) == [op |-> kind, email |-> email, ok |-> ok]

\* the text one adapter call returns: tagged by invocation and call number
generate_variation(h, k) == <<h, k>>

\* (variant) the select has no status filter
ScheduledRows_unfiltered(tbl) ==
  { [row |-> r, id |-> tbl[r].id, body_1 |-> tbl[r].body_1, lead_id |-> tbl[r].lead_id]
      : r \in DOMAIN tbl }

\* rows with status Scheduled, projected to id, body_1, lead_id
ScheduledRows(tbl) ==
  { [row |-> r, id |-> tbl[r].id, body_1 |-> tbl[r].body_1, lead_id |-> tbl[r].lead_id]
      : r \in { x \in DOMAIN tbl : tbl[x].status = "Scheduled" } }

\* the sequences that hold every element of S once
Arrangements(S) ==
  { rows \in [1..Cardinality(S) -> S] :
      \A a, b \in 1..Cardinality(S) : a # b => rows[a] # rows[b] }

\* (variant) the select returns every row twice
Orderings_repeated(S) == { rows \o rows : rows \in Arrangements(S) }

\* the orders in which the store may return the rows of S (the select has no
\* order clause)
Orderings(S) == Arrangements(S)

\* (variant) the check of line 100 leaves out body_1
MissingData_noBody(email) ==
  ~TruthyId(email.id) \/ ~TruthyId(email.lead_id)

\* line 100: the email is skipped when a required column is missing
MissingData(email) ==
  ~TruthyId(email.id) \/ ~TruthyId(email.lead_id) \/ ~TruthyText(email.body_1)

\* the first index >= k whose row passes the check of line 100
RECURSIVE NextEligible(_, _)
NextEligible(rows, k) ==
  IF k > Len(rows) THEN k
  ELSE IF MissingData(rows[k]) THEN NextEligible(rows, k + 1)
  ELSE k

Success(n) == [success |-> TRUE, count |-> n]

Failure(msg) == [success |-> FALSE, error |-> msg]

\* except Exception (line 148): the handler returns the failure envelope
Caught(h, kind, email, msg) ==
  /\ pc' = [pc EXCEPT ![h] = "returned"]
  /\ result' = [result EXCEPT ![h] = Failure(msg)]
  /\ trace' = [trace EXCEPT ![h] = Append(@, Op(kind, email, FALSE))]

\* continue with the row at index k of the batch, or finish the loop
Continue(h, rows, k, n) ==
  LET j == NextEligible(rows, k)
  IN  /\ idx' = [idx EXCEPT ![h] = j]
      /\ IF j > Len(rows)
           THEN /\ pc' = [pc EXCEPT ![h] = "returned"]
                /\ result' = [result EXCEPT ![h] = Success(n)]
           ELSE /\ pc' = [pc EXCEPT ![h] = "lead"]
                /\ UNCHANGED result

\* (variant) the loop walks the batch from its end
Current_reversed(h) == email_response[h][Len(email_response[h]) + 1 - idx[h]]

\* the row of the current loop iteration
Current(h) == email_response[h][idx[h]]

\* handler entry and init_supabase_client
init_supabase_client(h) ==
  /\ pc[h] = "idle"
  /\ \E topic \in subscribes :
       \/ /\ ~configured
          /\ Caught(h, "init", 0, "Missing Supabase configuration.")
       \/ /\ configured
          /\ Caught(h, "init", 0, "create_client failed")
       \/ /\ configured
          /\ pc' = [pc EXCEPT ![h] = "select"]
          /\ trace' = [trace EXCEPT ![h] = Append(@, Op("init", 0, TRUE))]
          /\ UNCHANGED result
  /\ UNCHANGED variations_generated
  /\ UNCHANGED qpvars
  /\ UNCHANGED <<configured, emails, leads, email_response, idx, job_description,
                 bodies, processed_count>>

\* (variant) a failed select is treated as an empty result
SelectEmails_swallowed(h) ==
  /\ pc[h] = "select"
  /\ \/ /\ pc' = [pc EXCEPT ![h] = "returned"]
        /\ result' = [result EXCEPT ![h] = Success(0)]
        /\ trace' = [trace EXCEPT ![h] = Append(@, Op("select", 0, FALSE))]
        /\ UNCHANGED <<email_response, idx>>
     \/ \E rows \in Orderings(ScheduledRows(emails)) :
          /\ email_response' = [email_response EXCEPT ![h] = rows]
          /\ trace' = [trace EXCEPT ![h] = Append(@, Op("select", 0, TRUE))]
          /\ Continue(h, rows, 1, 0)
  /\ UNCHANGED variations_generated
  /\ UNCHANGED qpvars
  /\ UNCHANGED <<configured, emails, leads, job_description, bodies, processed_count>>

\* the batch select of Scheduled emails
SelectEmails(h) ==
  /\ pc[h] = "select"
  /\ \/ /\ Caught(h, "select", 0, "select failed")
        /\ UNCHANGED <<email_response, idx>>
     \/ \E rows \in Orderings(ScheduledRows(emails)) :
          /\ email_response' = [email_response EXCEPT ![h] = rows]
          /\ trace' = [trace EXCEPT ![h] = Append(@, Op("select", 0, TRUE))]
          /\ Continue(h, rows, 1, 0)
  /\ UNCHANGED variations_generated
  /\ UNCHANGED qpvars
  /\ UNCHANGED <<configured, emails, leads, job_description, bodies, processed_count>>

\* (variant) the count is incremented before the lead is checked
LeadLookup_counted(h) ==
  /\ pc[h] = "lead"
  /\ LET email == Current(h)
     IN  \/ /\ Caught(h, "lead", email.id, "lead lookup failed")
            /\ UNCHANGED <<idx, job_description, processed_count>>
         \/ /\ email.lead_id \notin DOMAIN leads
            /\ trace' = [trace EXCEPT ![h] = Append(@, Op("lead", email.id, TRUE))]
            /\ processed_count' = [processed_count EXCEPT ![h] = @ + 1]
            /\ Continue(h, email_response[h], idx[h] + 1, processed_count[h] + 1)
            /\ UNCHANGED job_description
         \/ /\ email.lead_id \in DOMAIN leads
            /\ trace' = [trace EXCEPT ![h] = Append(@, Op("lead", email.id, TRUE))]
            /\ job_description' = [job_description EXCEPT ![h] =
                 IF leads[email.lead_id] = "" THEN "No job description provided."
                 ELSE leads[email.lead_id]]
            /\ pc' = [pc EXCEPT ![h] = "generate"]
            /\ UNCHANGED <<idx, result, processed_count>>
  /\ UNCHANGED variations_generated
  /\ UNCHANGED qpvars
  /\ UNCHANGED <<configured, emails, leads, email_response, bodies>>

\* (variant) a lookup that finds no lead goes on with the default description
LeadLookup_unchecked(h) ==
  /\ pc[h] = "lead"
  /\ LET email == Current(h)
     IN  \/ /\ Caught(h, "lead", email.id, "lead lookup failed")
            /\ UNCHANGED <<idx, job_description>>
         \/ /\ trace' = [trace EXCEPT ![h] = Append(@, Op("lead", email.id, TRUE))]
            /\ job_description' = [job_description EXCEPT ![h] =
                 IF email.lead_id \notin DOMAIN leads
                   THEN "No job description provided."
                 ELSE IF leads[email.lead_id] = "" THEN "No job description provided."
                 ELSE leads[email.lead_id]]
            /\ pc' = [pc EXCEPT ![h] = "generate"]
            /\ UNCHANGED <<idx, result>>
  /\ UNCHANGED variations_generated
  /\ UNCHANGED qpvars
  /\ UNCHANGED <<configured, emails, leads, email_response, bodies, processed_count>>

\* the lead lookup with maybe_single()
LeadLookup(h) ==
  /\ pc[h] = "lead"
  /\ LET email == Current(h)
     IN  \/ /\ Caught(h, "lead", email.id, "lead lookup failed")
            /\ UNCHANGED <<idx, job_description>>
         \/ /\ email.lead_id \notin DOMAIN leads
            /\ trace' = [trace EXCEPT ![h] = Append(@, Op("lead", email.id, TRUE))]
            /\ Continue(h, email_response[h], idx[h] + 1, processed_count[h])
            /\ UNCHANGED job_description
         \/ /\ email.lead_id \in DOMAIN leads
            /\ trace' = [trace EXCEPT ![h] = Append(@, Op("lead", email.id, TRUE))]
            /\ job_description' = [job_description EXCEPT ![h] =
                 IF leads[email.lead_id] = "" THEN "No job description provided."
                 ELSE leads[email.lead_id]]
            /\ pc' = [pc EXCEPT ![h] = "generate"]
            /\ UNCHANGED <<idx, result>>
  /\ UNCHANGED variations_generated
  /\ UNCHANGED qpvars
  /\ UNCHANGED <<configured, emails, leads, email_response, bodies, processed_count>>

\* one of the three awaited generate_variation calls
Generate(h) ==
  /\ pc[h] = "generate"
  /\ LET email == Current(h)
         k == Len(bodies[h]) + 2
     IN  \/ /\ Caught(h, "generate", email.id, "generate_variation failed")
            /\ UNCHANGED bodies
         \/ /\ bodies' = [bodies EXCEPT ![h] = Append(@, generate_variation(h, k))]
            /\ trace' = [trace EXCEPT ![h] = Append(@, Op("generate", email.id, TRUE))]
            /\ pc' = [pc EXCEPT ![h] = IF k = 4 THEN "update" ELSE "generate"]
            /\ UNCHANGED result
  /\ UNCHANGED variations_generated
  /\ UNCHANGED qpvars
  /\ UNCHANGED <<configured, emails, leads, email_response, idx, job_description,
                 processed_count>>

\* (variant) the update leaves out body_4
UpdateEmail_partial(h) ==
  /\ pc[h] = "update"
  /\ LET email == Current(h)
     IN  \/ /\ Caught(h, "update", email.id, "update failed")
            /\ UNCHANGED <<emails, processed_count, bodies>>
         \/ /\ emails' = [r \in DOMAIN emails |->
                 IF emails[r].id = email.id
                   THEN [emails[r] EXCEPT !.body_2 = bodies[h][1],
                                          !.body_3 = bodies[h][2]]
                   ELSE emails[r]]
            /\ processed_count' = [processed_count EXCEPT ![h] = @ + 1]
            /\ bodies' = [bodies EXCEPT ![h] = <<>>]
            /\ trace' = [trace EXCEPT ![h] = Append(@, Op("update", email.id, TRUE))]
            /\ pc' = [pc EXCEPT ![h] = "emit"]
            /\ UNCHANGED result
  /\ UNCHANGED variations_generated
  /\ UNCHANGED qpvars
  /\ UNCHANGED <<configured, leads, email_response, idx, job_description>>

\* (variant) the update also moves the email out of Scheduled
UpdateEmail_claims(h) ==
  /\ pc[h] = "update"
  /\ LET email == Current(h)
     IN  \/ /\ Caught(h, "update", email.id, "update failed")
            /\ UNCHANGED <<emails, processed_count, bodies>>
         \/ /\ emails' = [r \in DOMAIN emails |->
                 IF emails[r].id = email.id
                   THEN [emails[r] EXCEPT !.body_2 = bodies[h][1],
                                          !.body_3 = bodies[h][2],
                                          !.body_4 = bodies[h][3],
                                          !.status = "VariationsReady"]
                   ELSE emails[r]]
            /\ processed_count' = [processed_count EXCEPT ![h] = @ + 1]
            /\ bodies' = [bodies EXCEPT ![h] = <<>>]
            /\ trace' = [trace EXCEPT ![h] = Append(@, Op("update", email.id, TRUE))]
            /\ pc' = [pc EXCEPT ![h] = "emit"]
            /\ UNCHANGED result
  /\ UNCHANGED variations_generated
  /\ UNCHANGED qpvars
  /\ UNCHANGED <<configured, leads, email_response, idx, job_description>>

\* (variant) a failed update is logged and the iteration goes on to the emit
UpdateEmail_swallowed(h) ==
  /\ pc[h] = "update"
  /\ LET email == Current(h)
     IN  \/ /\ trace' = [trace EXCEPT ![h] = Append(@, Op("update", email.id, FALSE))]
            /\ bodies' = [bodies EXCEPT ![h] = <<>>]
            /\ pc' = [pc EXCEPT ![h] = "emit"]
            /\ UNCHANGED <<emails, processed_count, result>>
         \/ /\ emails' = [r \in DOMAIN emails |->
                 IF emails[r].id = email.id
                   THEN [emails[r] EXCEPT !.body_2 = bodies[h][1],
                                          !.body_3 = bodies[h][2],
                                          !.body_4 = bodies[h][3]]
                   ELSE emails[r]]
            /\ processed_count' = [processed_count EXCEPT ![h] = @ + 1]
            /\ bodies' = [bodies EXCEPT ![h] = <<>>]
            /\ trace' = [trace EXCEPT ![h] = Append(@, Op("update", email.id, TRUE))]
            /\ pc' = [pc EXCEPT ![h] = "emit"]
            /\ UNCHANGED result
  /\ UNCHANGED variations_generated
  /\ UNCHANGED qpvars
  /\ UNCHANGED <<configured, leads, email_response, idx, job_description>>

\* update(update_data).eq("id", email_id): one statement sets the three columns
UpdateEmail(h) ==
  /\ pc[h] = "update"
  /\ LET email == Current(h)
     IN  \/ /\ Caught(h, "update", email.id, "update failed")
            /\ UNCHANGED <<emails, processed_count, bodies>>
         \/ /\ emails' = [r \in DOMAIN emails |->
                 IF emails[r].id = email.id
                   THEN [emails[r] EXCEPT !.body_2 = bodies[h][1],
                                          !.body_3 = bodies[h][2],
                                          !.body_4 = bodies[h][3]]
                   ELSE emails[r]]
            /\ processed_count' = [processed_count EXCEPT ![h] = @ + 1]
            /\ bodies' = [bodies EXCEPT ![h] = <<>>]
            /\ trace' = [trace EXCEPT ![h] = Append(@, Op("update", email.id, TRUE))]
            /\ pc' = [pc EXCEPT ![h] = "emit"]
            /\ UNCHANGED result
  /\ UNCHANGED variations_generated
  /\ UNCHANGED qpvars
  /\ UNCHANGED <<configured, leads, email_response, idx, job_description>>

\* the event of lines 137-143
VariationsEvent(email) ==
  [topic |-> "email.variations.generated",
   data |-> [emailId |-> email.id, leadId |-> email.lead_id]]

\* (variant) the emit is outside the try block: its failure leaves the handler
EmitVariations_uncaught(h) ==
  /\ pc[h] = "emit"
  /\ LET email == Current(h)
     IN  \/ /\ pc' = [pc EXCEPT ![h] = "raised"]
            /\ trace' = [trace EXCEPT ![h] = Append(@, Op("emit", email.id, FALSE))]
            /\ UNCHANGED <<idx, result, variations_generated>>
         \/ /\ trace' = [trace EXCEPT ![h] = Append(@, Op("emit", email.id, TRUE))]
            /\ variations_generated' = [variations_generated EXCEPT ![h] =
                 Append(@, VariationsEvent(email))]
            /\ Continue(h, email_response[h], idx[h] + 1, processed_count[h])
  /\ UNCHANGED qpvars
  /\ UNCHANGED <<configured, emails, leads, email_response, job_description, bodies,
                 processed_count>>

\* ctx.emit of email.variations.generated, then the next loop iteration
EmitVariations(h) ==
  /\ pc[h] = "emit"
  /\ LET email == Current(h)
     IN  \/ /\ Caught(h, "emit", email.id, "emit failed")
            /\ UNCHANGED <<idx, variations_generated>>
         \/ /\ trace' = [trace EXCEPT ![h] = Append(@, Op("emit", email.id, TRUE))]
            /\ variations_generated' = [variations_generated EXCEPT ![h] =
                 Append(@, VariationsEvent(email))]
            /\ Continue(h, email_response[h], idx[h] + 1, processed_count[h])
  /\ UNCHANGED qpvars
  /\ UNCHANGED <<configured, emails, leads, email_response, job_description, bodies,
                 processed_count>>

\* what upstream may have stored for one email: a complete Scheduled draft, or
\* a row that departs from it in one column
EmailProfiles ==
  { e \in [id : {0, 1}, status : {"Scheduled", "Draft"}, body_1 : {"", "draft"},
            lead_id : LeadRefs, body_2 : {NoBody}, body_3 : {NoBody},
            body_4 : {NoBody}] :
      Cardinality({ c \in {"id", "status", "body_1", "lead_id"} :
                      \/ c = "id" /\ e.id = 0
                      \/ c = "status" /\ e.status # "Scheduled"
                      \/ c = "body_1" /\ e.body_1 = ""
                      \/ c = "lead_id" /\ e.lead_id \notin LeadIds }) <= 1 }

VGStart ==
  /\ \E tbl \in [EmailRows -> EmailProfiles] :
       emails = [r \in EmailRows |-> [tbl[r] EXCEPT !.id = IF @ = 0 THEN 0 ELSE r]]
  /\ leads \in [LeadIds -> {"", "jd"}]
  /\ pc = [h \in Handlers |-> "idle"]
  /\ email_response = [h \in Handlers |-> <<>>]
  /\ idx = [h \in Handlers |-> 0]
  /\ job_description = [h \in Handlers |-> ""]
  /\ bodies = [h \in Handlers |-> <<>>]
  /\ processed_count = [h \in Handlers |-> 0]
  /\ trace = [h \in Handlers |-> <<>>]
  /\ result = [h \in Handlers |-> NoResult]
  /\ variations_generated = [h \in Handlers |-> <<>>]

NextVG ==
  \E h \in Handlers :
    \/ init_supabase_client(h)
    \/ SelectEmails(h)
    \/ LeadLookup(h)
    \/ Generate(h)
    \/ UpdateEmail(h)
    \/ EmitVariations(h)

\* ------------------------------------------------------------------------
\* Query Processor
\* ------------------------------------------------------------------------
\* A text is a sequence of tokens: a word, one space or one double quote.
SP == <<" ">>

QUOTE == <<"\"">>

base == <<"site:workatastartup.com">>

\* str.lower() on one token
LowerToken(t) ==
  CASE t = "Remote" -> "remote"
    [] t = "REMOTE" -> "remote"
    [] t = "San" -> "san"
    [] t = "Francisco" -> "francisco"
    [] OTHER -> t

\* (variant) the location is compared as written
lower_asWritten(text) == text

\* str.lower()
lower(text) == [k \in DOMAIN text |-> LowerToken(text[k])]

\* ' ' in text
HasSpace(text) == \E k \in DOMAIN text : text[k] = " "

Quoted(text) == QUOTE \o text \o QUOTE

\* (variant) a negative bound is taken as zero
SliceTo_floored(seq, n) ==
  SubSeq(seq, 1, IF n < 0 THEN 0 ELSE IF n < Len(seq) THEN n ELSE Len(seq))

\* seq[:n] of Python, for any integer n
SliceTo(seq, n) ==
  IF n >= 0 THEN SubSeq(seq, 1, IF n < Len(seq) THEN n ELSE Len(seq))
  ELSE SubSeq(seq, 1, IF Len(seq) + n > 0 THEN Len(seq) + n ELSE 0)

generate_smart_dorks(parsed) ==
  LET role == IF HasSpace(parsed.role) THEN Quoted(parsed.role) ELSE parsed.role
      location ==
        IF parsed.location # <<>>
          THEN IF lower(parsed.location) = <<"remote">> THEN Quoted(<<"remote">>)
               ELSE Quoted(parsed.location)
          ELSE <<>>
      core ==
        IF location # <<>>
          THEN << base \o SP \o role \o SP \o location,
                  base \o SP \o role \o SP \o location \o SP \o <<"jobs">> >>
          ELSE << base \o SP \o role,
                  base \o SP \o role \o SP \o <<"jobs">> >>
      dorks == IF Len(core) < 3
                 THEN Append(core, base \o SP \o role \o SP \o <<"hiring">>)
                 ELSE core
  IN  SliceTo(dorks, parsed.limit)

\* what marvin.extract may return for the query: a role and a location
Extractions ==
  { [role |-> <<"founding", " ", "engineer">>, location |-> <<"san", " ", "francisco">>],
    [role |-> <<"engineer">>, location |-> <<"Remote">>] }

Queries == {"find founding engineer roles in san francisco"}

DefaultLimit == 10

\* the limits an event may carry
EventLimits == {1}

\* the job.query.received events: each field may be missing
Events ==
  [has_query : BOOLEAN, query : Queries, has_jobId : BOOLEAN,
   jobId : JobIds \cup {UnknownJob}, has_limit : BOOLEAN, limit : EventLimits]

NoEvent ==
  [has_query |-> FALSE, query |-> "", has_jobId |-> FALSE, jobId |-> 0,
   has_limit |-> FALSE, limit |-> 0]

\* a job as upstream intake creates it
NewJob ==
  [status |-> "RECEIVED", parsed_role |-> None, parsed_location |-> None,
   google_dorks |-> None, error_message |-> None, updated_at |-> None,
   completed_at |-> None]

QOp(kind, ok) == [op |-> kind, ok |-> ok]

\* (variant) only query is required
MissingField_queryOnly(ev) == IF ~ev.has_query THEN "query" ELSE ""

\* lines 143-147: the first required field the event lacks, or "" if none
MissingField(ev) ==
  IF ~ev.has_query THEN "query"
  ELSE IF ~ev.has_jobId THEN "jobId"
  ELSE ""

\* update(patch).eq("id", jobId) on the jobs table
UpdateJob(tbl, jobId, patch) ==
  [j \in DOMAIN tbl |->
     IF j = jobId
       THEN [c \in DOMAIN tbl[j] |-> IF c \in DOMAIN patch THEN patch[c] ELSE tbl[j][c]]
       ELSE tbl[j]]

\* an exception inside the try block of the handler: control goes to line 208
ToExcept(q, kind, msg) ==
  /\ qpc' = [qpc EXCEPT ![q] = "except"]
  /\ raised' = [raised EXCEPT ![q] = Some(msg)]
  /\ qtrace' = [qtrace EXCEPT ![q] = Append(@, QOp(kind, FALSE))]

\* handler entry: the required-field check
Receive(q) ==
  /\ qpc[q] = "idle"
  /\ \E ev \in Events :
       /\ args' = [args EXCEPT ![q] = ev]
       /\ IF MissingField(ev) # ""
            THEN /\ qpc' = [qpc EXCEPT ![q] = "raised"]
                 /\ raised' = [raised EXCEPT ![q] =
                      Some("Event is missing required field: " \o MissingField(ev))]
            ELSE /\ qpc' = [qpc EXCEPT ![q] = "mark"]
                 /\ UNCHANGED raised
  /\ UNCHANGED vgvars
  /\ UNCHANGED <<configured, jobs, parsed_query, qtrace, emitted, returned>>

\* (variant) the write is attempted whether or not the credentials are set
MarkProcessing_unguarded(q) ==
  /\ qpc[q] = "mark"
  /\ \/ /\ ToExcept(q, "write_processing", "jobs update failed")
        /\ UNCHANGED jobs
     \/ /\ jobs' = UpdateJob(jobs, args[q].jobId, [status |-> "PROCESSING"])
        /\ qtrace' = [qtrace EXCEPT ![q] = Append(@, QOp("write_processing", TRUE))]
        /\ qpc' = [qpc EXCEPT ![q] = "extract"]
        /\ UNCHANGED raised
  /\ UNCHANGED vgvars
  /\ UNCHANGED <<configured, args, parsed_query, emitted, returned>>

\* lines 155-164: mark the job PROCESSING
MarkProcessing(q) ==
  /\ qpc[q] = "mark"
  /\ \/ /\ ~configured
        /\ qpc' = [qpc EXCEPT ![q] = "extract"]
        /\ UNCHANGED <<jobs, qtrace, raised>>
     \/ /\ configured
        /\ ToExcept(q, "write_processing", "jobs update failed")
        /\ UNCHANGED jobs
     \/ /\ configured
        /\ jobs' = UpdateJob(jobs, args[q].jobId, [status |-> "PROCESSING"])
        /\ qtrace' = [qtrace EXCEPT ![q] = Append(@, QOp("write_processing", TRUE))]
        /\ qpc' = [qpc EXCEPT ![q] = "extract"]
        /\ UNCHANGED raised
  /\ UNCHANGED vgvars
  /\ UNCHANGED <<configured, args, parsed_query, emitted, returned>>

\* lines 166-185: parse_job_query, then generate_smart_dorks
parse_job_query(q) ==
  /\ qpc[q] = "extract"
  /\ \/ /\ ToExcept(q, "extract", "marvin.extract failed")
        /\ UNCHANGED parsed_query
     \/ \E x \in Extractions :
          LET limit == IF args[q].has_limit THEN args[q].limit ELSE DefaultLimit
              parsed == [jobId |-> args[q].jobId, query |-> args[q].query,
                         role |-> x.role, location |-> x.location, limit |-> limit]
          IN  /\ parsed_query' = [parsed_query EXCEPT ![q] =
                   Some([jobId |-> parsed.jobId, query |-> parsed.query,
                         role |-> parsed.role, location |-> parsed.location,
                         limit |-> parsed.limit,
                         google_dorks |-> generate_smart_dorks(parsed)])]
              /\ qtrace' = [qtrace EXCEPT ![q] = Append(@, QOp("extract", TRUE))]
              /\ qpc' = [qpc EXCEPT ![q] = "persist"]
              /\ UNCHANGED raised
  /\ UNCHANGED vgvars
  /\ UNCHANGED <<configured, jobs, args, emitted, returned>>

\* lines 187-206: write the parsed fields; a failed update is logged only
PersistParsed(q) ==
  /\ qpc[q] = "persist"
  /\ LET parsed == parsed_query[q][1]
     IN  \/ /\ ~configured
            /\ qpc' = [qpc EXCEPT ![q] = "emit"]
            /\ UNCHANGED <<jobs, qtrace, raised>>
         \/ /\ configured
            /\ ToExcept(q, "create_client", "create_client failed")
            /\ UNCHANGED jobs
         \/ /\ configured
            /\ qtrace' = [qtrace EXCEPT ![q] = Append(@, QOp("write_parsed", FALSE))]
            /\ qpc' = [qpc EXCEPT ![q] = "emit"]
            /\ UNCHANGED <<jobs, raised>>
         \/ /\ configured
            /\ jobs' = UpdateJob(jobs, args[q].jobId,
                 [status |-> "PROCESSING", parsed_role |-> Some(parsed.role),
                  parsed_location |-> Some(parsed.location),
                  google_dorks |-> Some(parsed.google_dorks), updated_at |-> Some(q)])
            /\ qtrace' = [qtrace EXCEPT ![q] = Append(@, QOp("write_parsed", TRUE))]
            /\ qpc' = [qpc EXCEPT ![q] = "emit"]
            /\ UNCHANGED raised
  /\ UNCHANGED vgvars
  /\ UNCHANGED <<configured, args, parsed_query, emitted, returned>>

\* (variant) the except block re-raises without touching the store
HandleException_noWrite(q) ==
  /\ qpc[q] = "except"
  /\ qpc' = [qpc EXCEPT ![q] = "raised"]
  /\ UNCHANGED vgvars
  /\ UNCHANGED <<configured, jobs, qtrace, args, parsed_query, emitted, returned, raised>>

\* (variant) the event is emitted on the failure path too
HandleException_emits(q) ==
  /\ qpc[q] = "except"
  /\ \/ /\ ~configured
        /\ UNCHANGED <<jobs, qtrace>>
     \/ /\ configured
        /\ qtrace' = [qtrace EXCEPT ![q] = Append(@, QOp("write_error", FALSE))]
        /\ UNCHANGED jobs
     \/ /\ configured
        /\ jobs' = UpdateJob(jobs, args[q].jobId,
             [status |-> "ERROR", error_message |-> raised[q], updated_at |-> Some(q),
              completed_at |-> Some(q)])
        /\ qtrace' = [qtrace EXCEPT ![q] = Append(@, QOp("write_error", TRUE))]
  /\ emitted' = [emitted EXCEPT ![q] = Append(@, [jobId |-> args[q].jobId])]
  /\ qpc' = [qpc EXCEPT ![q] = "raised"]
  /\ UNCHANGED vgvars
  /\ UNCHANGED <<configured, args, parsed_query, returned, raised>>

\* lines 208-223: best-effort ERROR write, then re-raise
HandleException(q) ==
  /\ qpc[q] = "except"
  /\ \/ /\ ~configured
        /\ UNCHANGED <<jobs, qtrace>>
     \/ /\ configured
        /\ qtrace' = [qtrace EXCEPT ![q] = Append(@, QOp("write_error", FALSE))]
        /\ UNCHANGED jobs
     \/ /\ configured
        /\ jobs' = UpdateJob(jobs, args[q].jobId,
             [status |-> "ERROR", error_message |-> raised[q], updated_at |-> Some(q),
              completed_at |-> Some(q)])
        /\ qtrace' = [qtrace EXCEPT ![q] = Append(@, QOp("write_error", TRUE))]
  /\ qpc' = [qpc EXCEPT ![q] = "raised"]
  /\ UNCHANGED vgvars
  /\ UNCHANGED <<configured, args, parsed_query, emitted, returned, raised>>

\* lines 225-229: emit job.query.processed and return the same dict
EmitProcessed(q) ==
  /\ qpc[q] = "emit"
  /\ \/ /\ qtrace' = [qtrace EXCEPT ![q] = Append(@, QOp("emit", FALSE))]
        /\ raised' = [raised EXCEPT ![q] = Some("emit failed")]
        /\ qpc' = [qpc EXCEPT ![q] = "raised"]
        /\ UNCHANGED <<emitted, returned>>
     \/ /\ qtrace' = [qtrace EXCEPT ![q] = Append(@, QOp("emit", TRUE))]
        /\ emitted' = [emitted EXCEPT ![q] = Append(@, parsed_query[q][1])]
        /\ returned' = [returned EXCEPT ![q] = parsed_query[q]]
        /\ qpc' = [qpc EXCEPT ![q] = "returned"]
        /\ UNCHANGED raised
  /\ UNCHANGED vgvars
  /\ UNCHANGED <<configured, jobs, args, parsed_query>>

QPStart ==
  /\ jobs = [j \in JobIds |-> NewJob]
  /\ qpc = [q \in Deliveries |-> "idle"]
  /\ args = [q \in Deliveries |-> NoEvent]
  /\ parsed_query = [q \in Deliveries |-> None]
  /\ qtrace = [q \in Deliveries |-> <<>>]
  /\ emitted = [q \in Deliveries |-> <<>>]
  /\ returned = [q \in Deliveries |-> None]
  /\ raised = [q \in Deliveries |-> None]

NextQP ==
  \E q \in Deliveries :
    \/ Receive(q)
    \/ MarkProcessing(q)
    \/ parse_job_query(q)
    \/ PersistParsed(q)
    \/ HandleException(q)
    \/ EmitProcessed(q)

vars == <<configured, vgvars, qpvars>>

\* the variation handlers alone, over a jobs table nobody touches
InitVG ==
  /\ configured \in BOOLEAN
  /\ VGStart
  /\ jobs = [j \in JobIds |-> NewJob]
  /\ qpc = [q \in Deliveries |-> "idle"]
  /\ args = [q \in Deliveries |-> NoEvent]
  /\ parsed_query = [q \in Deliveries |-> None]
  /\ qtrace = [q \in Deliveries |-> <<>>]
  /\ emitted = [q \in Deliveries |-> <<>>]
  /\ returned = [q \in Deliveries |-> None]
  /\ raised = [q \in Deliveries |-> None]

SpecVG == InitVG /\ [][NextVG]_vars

\* the variation handlers run one after another: a trigger is handled only
\* when every earlier invocation has returned
NextVGSeq ==
  \E h \in Handlers :
    /\ \A g \in Handlers \ {h} : pc[g] \in {"idle", "returned"}
    /\ \/ init_supabase_client(h)
       \/ SelectEmails(h)
       \/ LeadLookup(h)
       \/ Generate(h)
       \/ UpdateEmail(h)
       \/ EmitVariations(h)

SpecVGSeq == InitVG /\ [][NextVGSeq]_vars

\* the query handlers alone, over an emails table nobody touches
InitQP ==
  /\ configured \in BOOLEAN
  /\ QPStart
  /\ emails = [r \in EmailRows |->
       [id |-> r, status |-> "Scheduled", body_1 |-> "draft", lead_id |-> 1,
        body_2 |-> NoBody, body_3 |-> NoBody, body_4 |-> NoBody]]
  /\ leads = [l \in LeadIds |-> "jd"]
  /\ pc = [h \in Handlers |-> "idle"]
  /\ email_response = [h \in Handlers |-> <<>>]
  /\ idx = [h \in Handlers |-> 0]
  /\ job_description = [h \in Handlers |-> ""]
  /\ bodies = [h \in Handlers |-> <<>>]
  /\ processed_count = [h \in Handlers |-> 0]
  /\ trace = [h \in Handlers |-> <<>>]
  /\ result = [h \in Handlers |-> NoResult]
  /\ variations_generated = [h \in Handlers |-> <<>>]

SpecQP == InitQP /\ [][NextQP]_vars

\* the search-term generator on its own: generate_smart_dorks applied to the
\* JobQuery objects parse_job_query can build
MaxLimit == 4

\* limit is an unvalidated int of the event
DorkLimits == (0 - MaxLimit)..MaxLimit

DorkRoles == { <<>>, <<"engineer">>, <<"founding", " ", "engineer">> }

DorkLocations ==
  { <<>>, <<"remote">>, <<"Remote">>, <<"REMOTE">>, <<"san", " ", "francisco">> }

\* a JobQuery as constructed: google_dorks defaults to the empty list
JobQueries ==
  [jobId : {1}, query : Queries, role : DorkRoles, location : DorkLocations,
   limit : DorkLimits, google_dorks : {<<>>}]

\* lines 178-181: parsed_query.google_dorks = generate_smart_dorks(parsed_query)
GenerateDorks(q) ==
  /\ qpc[q] = "idle"
  /\ parsed_query' = [parsed_query EXCEPT ![q] =
       Some([parsed_query[q][1] EXCEPT
               !.google_dorks = generate_smart_dorks(parsed_query[q][1])])]
  /\ qpc' = [qpc EXCEPT ![q] = "generated"]
  /\ UNCHANGED vgvars
  /\ UNCHANGED <<configured, jobs, args, qtrace, emitted, returned, raised>>

InitDorks ==
  /\ configured \in BOOLEAN
  /\ jobs = [j \in JobIds |-> NewJob]
  /\ qpc = [q \in Deliveries |-> "idle"]
  /\ args = [q \in Deliveries |-> NoEvent]
  /\ parsed_query \in [Deliveries -> { Some(p) : p \in JobQueries }]
  /\ qtrace = [q \in Deliveries |-> <<>>]
  /\ emitted = [q \in Deliveries |-> <<>>]
  /\ returned = [q \in Deliveries |-> None]
  /\ raised = [q \in Deliveries |-> None]
  /\ emails = [r \in EmailRows |->
       [id |-> r, status |-> "Scheduled", body_1 |-> "draft", lead_id |-> 1,
        body_2 |-> NoBody, body_3 |-> NoBody, body_4 |-> NoBody]]
  /\ leads = [l \in LeadIds |-> "jd"]
  /\ pc = [h \in Handlers |-> "idle"]
  /\ email_response = [h \in Handlers |-> <<>>]
  /\ idx = [h \in Handlers |-> 0]
  /\ job_description = [h \in Handlers |-> ""]
  /\ bodies = [h \in Handlers |-> <<>>]
  /\ processed_count = [h \in Handlers |-> 0]
  /\ trace = [h \in Handlers |-> <<>>]
  /\ result = [h \in Handlers |-> NoResult]
  /\ variations_generated = [h \in Handlers |-> <<>>]

NextDorks == \E q \in Deliveries : GenerateDorks(q)

SpecDorks == InitDorks /\ [][NextDorks]_vars

\* ------------------------------------------------------------------------
\* Properties
\* ------------------------------------------------------------------------
\* the invocation performed operation kind on email e, and it succeeded
Did(h, kind, e) == \E k \in DOMAIN trace[h] : trace[h][k] = Op(kind, e, TRUE)

\* how often the invocation performed operation kind on email e
Times(h, kind, e) ==
  Cardinality({ k \in DOMAIN trace[h] : trace[h][k] = Op(kind, e, TRUE) })

\* the invocation's operation kind failed on email e
FailedOn(h, kind, e) == \E k \in DOMAIN trace[h] : trace[h][k] = Op(kind, e, FALSE)

\* the query handler attempted operation kind with outcome ok
QDid(q, kind, ok) == \E k \in DOMAIN qtrace[q] : qtrace[q][k] = QOp(kind, ok)

\* the successful writes of a query-handler invocation, in order
Writes(q) ==
  SelectSeq(qtrace[q],
            LAMBDA o : o.ok /\ o.op \in {"write_processing", "write_parsed", "write_error"})

Terminal(job) == job.status \in {"COMPLETED", "ERROR"} /\ job.completed_at # None

\* C1: once a Job record is COMPLETED or ERROR with completed_at set, no step
\* of the query handler changes any field of it.
C1_TerminalJobImmutable ==
  [][\A j \in JobIds : Terminal(jobs[j]) => jobs'[j] = jobs[j]]_vars

\* C2: the variation handler never raises; once it has ended it has returned
\* {success: true, count: n} or {success: false, error: message}, and every
\* failed store, adapter or emit call ends it that way.
C2_NeverPropagates ==
  \A h \in Handlers :
    /\ pc[h] # "raised"
    /\ pc[h] = "returned" =>
         \/ /\ DOMAIN result[h] = {"success", "count"}
            /\ result[h].success
            /\ result[h].count \in 0..MaxEmails
         \/ /\ DOMAIN result[h] = {"success", "error"}
            /\ ~result[h].success
    /\ (\E k \in DOMAIN trace[h] : ~trace[h][k].ok) =>
         /\ pc[h] = "returned"
         /\ ~result[h].success

\* C2 witness: an invocation whose emit failed has returned the failure envelope
C2_Witness ==
  \E h \in Handlers, e \in EmailRows :
    /\ FailedOn(h, "emit", e)
    /\ pc[h] = "returned"
    /\ result[h] = Failure("emit failed")

\* the eligible rows of the batch after index k: data present and lead found
LaterEligible(h, k) ==
  { j \in DOMAIN email_response[h] :
      /\ j > k
      /\ ~MissingData(email_response[h][j])
      /\ email_response[h][j].lead_id \in DOMAIN leads }

\* C3: after a failed adapter call for one email the invocation still updates
\* and emits every later eligible email and returns {success: true, count}.
C3_AdapterFailureSkipsOneEmail ==
  \A h \in Handlers :
    (pc[h] = "returned" /\ \E e \in EmailRows : FailedOn(h, "generate", e)) =>
      /\ result[h].success
      /\ \A j \in LaterEligible(h, idx[h]) :
           /\ Did(h, "update", email_response[h][j].id)
           /\ Did(h, "emit", email_response[h][j].id)

\* C4: every email has none of body_2, body_3, body_4 or all three, and then
\* all three come from the same invocation.
C4_NoPartialVariants ==
  \A r \in EmailRows :
    \/ /\ emails[r].body_2 = NoBody
       /\ emails[r].body_3 = NoBody
       /\ emails[r].body_4 = NoBody
    \/ \E h \in Handlers :
         /\ emails[r].body_2 = generate_variation(h, 2)
         /\ emails[r].body_3 = generate_variation(h, 3)
         /\ emails[r].body_4 = generate_variation(h, 4)

\* C4 witness: one invocation has stored the variants of an email while the
\* other one failed on the same email between its adapter calls
C4_Witness ==
  \E r \in EmailRows, h, g \in Handlers :
    /\ h # g
    /\ emails[r].body_2 = generate_variation(h, 2)
    /\ Did(g, "generate", r)
    /\ FailedOn(g, "generate", r)

\* C5: a failed extract call does not fail the job: the invocation does not
\* raise and does not write ERROR.
C5_ExtractFailureFallsBack ==
  \A q \in Deliveries :
    QDid(q, "extract", FALSE) =>
      /\ qpc[q] \notin {"except", "raised"}
      /\ raised[q] = None
      /\ ~QDid(q, "write_error", TRUE)

\* the event passed the required-field check
Validated(q) == qpc[q] # "idle" /\ args[q].has_query /\ args[q].has_jobId

\* C6 as stated: an invocation that raised after validation, with credentials
\* configured, made ERROR its last write to the job: none of its writes is
\* left standing as PROCESSING.
C6_RaisedLeavesError ==
  \A q \in Deliveries :
    (qpc[q] = "raised" /\ Validated(q) /\ configured /\ Writes(q) # <<>>) =>
      Writes(q)[Len(Writes(q))].op = "write_error"

\* the exception came out of the try block (not out of the emit after it)
RaisedInTry(q) ==
  /\ qpc[q] = "raised"
  /\ Validated(q)
  /\ ~QDid(q, "emit", FALSE)

\* C6 amended: an invocation that raised out of its try block, with
\* credentials configured, ended with one attempt to write ERROR; if the
\* attempt succeeded it is the invocation's last write, and a job no other
\* delivery wrote then holds {ERROR, error_message, updated_at, completed_at}.
C6_RaisedInTryAttemptsError ==
  \A q \in Deliveries :
    (RaisedInTry(q) /\ configured) =>
      /\ raised[q] # None
      /\ qtrace[q] # <<>>
      /\ qtrace[q][Len(qtrace[q])].op = "write_error"
      /\ QDid(q, "write_error", TRUE) =>
           /\ Writes(q)[Len(Writes(q))].op = "write_error"
           /\ (/\ args[q].jobId \in JobIds
               /\ \A d \in Deliveries \ {q} : Writes(d) = <<>>) =>
                LET job == jobs[args[q].jobId]
                IN  /\ job.status = "ERROR"
                    /\ job.error_message = raised[q]
                    /\ job.updated_at = Some(q)
                    /\ job.completed_at = Some(q)

\* C6 witness: PROCESSING written, extraction failed, ERROR written, raised
C6_Witness ==
  \E q \in Deliveries :
    /\ qpc[q] = "raised"
    /\ qtrace[q] = << QOp("write_processing", TRUE), QOp("extract", FALSE),
                      QOp("write_error", TRUE) >>
    /\ args[q].jobId \in JobIds
    /\ jobs[args[q].jobId].status = "ERROR"

JobQueryFields == {"jobId", "query", "role", "location", "limit", "google_dorks"}

\* C7: an invocation that returned emitted job.query.processed exactly once,
\* as its last operation, with the returned JobQuery as payload; an invocation
\* that has not returned, or that wrote ERROR, emitted nothing.
C7_EmitOnSuccessOnly ==
  \A q \in Deliveries :
    /\ qpc[q] = "returned" =>
         /\ Len(emitted[q]) = 1
         /\ returned[q] = Some(emitted[q][1])
         /\ DOMAIN emitted[q][1] = JobQueryFields
         /\ emitted[q][1].jobId = args[q].jobId
         /\ qtrace[q][Len(qtrace[q])] = QOp("emit", TRUE)
         /\ raised[q] = None
    /\ qpc[q] # "returned" => emitted[q] = <<>> /\ returned[q] = None
    /\ QDid(q, "write_error", TRUE) => emitted[q] = <<>>

\* C7 witness: one delivery returned its JobQuery, the other one raised
C7_Witness ==
  \E q, d \in Deliveries :
    /\ qpc[q] = "returned"
    /\ Len(emitted[q]) = 1
    /\ emitted[q][1].google_dorks # <<>>
    /\ qpc[d] = "raised"
    /\ QDid(d, "write_error", TRUE)

\* C8: an event without query or jobId ends the invocation with the
\* missing-field error before any store operation, adapter call or emit.
C8_MissingFieldNoSideEffect ==
  \A q \in Deliveries :
    (qpc[q] # "idle" /\ (~args[q].has_query \/ ~args[q].has_jobId)) =>
      /\ qpc[q] = "raised"
      /\ raised[q] \in { Some("Event is missing required field: query"),
                         Some("Event is missing required field: jobId") }
      /\ qtrace[q] = <<>>
      /\ emitted[q] = <<>>
      /\ parsed_query[q] = None
      /\ returned[q] = None

\* C8 witness: an event with a query and no jobId was rejected
C8_Witness ==
  \E q \in Deliveries :
    /\ qpc[q] = "raised"
    /\ args[q].has_query
    /\ ~args[q].has_jobId
    /\ raised[q] = Some("Event is missing required field: jobId")

\* how often operation kind succeeded on email e, over all invocations
RECURSIVE TotalTimes(_, _, _)
TotalTimes(H, kind, e) ==
  IF H = {} THEN 0
  ELSE LET h == CHOOSE x \in H : TRUE
       IN  Times(h, kind, e) + TotalTimes(H \ {h}, kind, e)

\* C9 as stated: over the triggers handled one after another, the variants
\* of an email are written at most once and its event is emitted at most once.
C9_WrittenOnceOverAllTriggers ==
  \A e \in EmailRows :
    /\ TotalTimes(Handlers, "update", e) <= 1
    /\ TotalTimes(Handlers, "emit", e) <= 1

\* C9 amended: one invocation writes the variants of an email at most once and
\* emits its event at most once (a later invocation that still finds the email
\* Scheduled writes and emits again).
C9_WrittenOncePerInvocation ==
  \A h \in Handlers, e \in EmailRows :
    /\ Times(h, "update", e) <= 1
    /\ Times(h, "emit", e) <= 1

\* C9 witness: two invocations, one after the other, each wrote and emitted
\* the same email once
C9_Witness ==
  \E e \in EmailRows :
    \A h \in Handlers :
      /\ pc[h] = "returned"
      /\ Times(h, "update", e) = 1
      /\ Times(h, "emit", e) = 1

\* C10: nothing takes an email out of the Scheduled set between a select and
\* the update: every row an invocation selected is still returned by a select
\* of any other invocation.
C10_SelectedStaysSelectable ==
  \A h \in Handlers :
    \A k \in DOMAIN email_response[h] :
      email_response[h][k] \in ScheduledRows(emails)

\* C10 witness: two invocations that are both still running have both
\* selected the same email, both written its variants and both emitted its
\* event; the email is still Scheduled
C10_Witness ==
  \E e \in EmailRows, h, g \in Handlers :
    /\ h # g
    /\ pc[h] \notin {"idle", "returned"}
    /\ pc[g] \notin {"idle", "returned"}
    /\ \E k \in DOMAIN email_response[h] : email_response[h][k].id = e
    /\ \E k \in DOMAIN email_response[g] : email_response[g][k].id = e
    /\ Did(h, "update", e) /\ Did(h, "emit", e)
    /\ Did(g, "update", e) /\ Did(g, "emit", e)
    /\ emails[e].status = "Scheduled"

\* no store, adapter or emit call of the invocation failed
NoFailure(h) == \A k \in DOMAIN trace[h] : trace[h][k].ok

\* the selected row has an id, a lead_id, a body_1 and a lead that exists
Eligible(row) ==
  /\ row.id # 0
  /\ row.lead_id # 0
  /\ row.body_1 # ""
  /\ row.lead_id \in DOMAIN leads

EligibleIn(h) == { k \in DOMAIN email_response[h] : Eligible(email_response[h][k]) }

Incomplete(row) == row.id = 0 \/ row.lead_id = 0 \/ row.body_1 = ""

PerEmailOps == {"lead", "generate", "update", "emit"}

\* C12: a selected email whose id, lead_id or body_1 is absent or empty is
\* skipped as a whole: the invocation makes no lead lookup, no adapter call, no
\* update and no emit for it and does not count it (the count is the number of
\* emails it updated), its row keeps body_2..4 unwritten, and the loop goes on
\* to the emails after it.
C12_IncompleteEmailSkipped ==
  \A h \in Handlers :
    LET rows == email_response[h]
    IN  /\ processed_count[h]
             = Cardinality({ j \in DOMAIN trace[h] :
                               trace[h][j].op = "update" /\ trace[h][j].ok })
        /\ \A k \in DOMAIN rows :
             Incomplete(rows[k]) =>
               /\ \A j \in DOMAIN trace[h] :
                    trace[h][j].op \in PerEmailOps => trace[h][j].email # rows[k].id
               /\ \A j \in DOMAIN variations_generated[h] :
                    variations_generated[h][j].data.emailId # rows[k].id
               /\ emails[rows[k].row].body_2 = NoBody
               /\ emails[rows[k].row].body_3 = NoBody
               /\ emails[rows[k].row].body_4 = NoBody
               /\ (pc[h] = "returned" /\ NoFailure(h)) =>
                    \A i \in DOMAIN rows :
                      (i > k /\ Eligible(rows[i])) => Did(h, "emit", rows[i].id)

\* an invocation skipped the first row of its batch, which has no body_1, and
\* then processed the second
C12_Witness ==
  \E h \in Handlers :
    /\ pc[h] = "returned"
    /\ Len(email_response[h]) = 2
    /\ email_response[h][1].body_1 = ""
    /\ email_response[h][1].id # 0
    /\ Did(h, "emit", email_response[h][2].id)
    /\ result[h] = [success |-> TRUE, count |-> 1]

\* the selected row is complete but its lead_id names no lead
LeadMissing(row) == ~Incomplete(row) /\ row.lead_id \notin DOMAIN leads

\* C13: a lead lookup that returns no lead skips that email only: no adapter
\* call, no update, no emit and no count for it; the invocation goes on with
\* the next email and, when no call fails, processes the emails after it and
\* returns {success: true, ...}.
C13_LeadMissSkipsOneEmail ==
  \A h \in Handlers :
    \A k \in DOMAIN email_response[h] :
      LET rows == email_response[h]
          row == rows[k]
          t == trace[h]
      IN  LeadMissing(row) =>
            /\ \A j \in DOMAIN t :
                 t[j].op \in {"generate", "update", "emit"} => t[j].email # row.id
            /\ \A j \in DOMAIN variations_generated[h] :
                 variations_generated[h][j].data.emailId # row.id
            /\ processed_count[h] <= Cardinality(EligibleIn(h))
            /\ (t # <<>> /\ t[Len(t)] = Op("lead", row.id, TRUE)) =>
                 \/ pc[h] = "lead" /\ idx[h] > k
                 \/ pc[h] = "returned" /\ result[h].success
            /\ (pc[h] = "returned" /\ NoFailure(h)) =>
                 /\ result[h].success
                 /\ \A i \in DOMAIN rows :
                      (i > k /\ Eligible(rows[i])) => Did(h, "emit", rows[i].id)

\* an invocation looked up the lead of its first row, found none, and then
\* processed the second row and returned success
C13_Witness ==
  \E h \in Handlers :
    /\ pc[h] = "returned"
    /\ Len(email_response[h]) = 2
    /\ LeadMissing(email_response[h][1])
    /\ Did(h, "lead", email_response[h][1].id)
    /\ Did(h, "emit", email_response[h][2].id)
    /\ result[h] = [success |-> TRUE, count |-> 1]

\* C14: when the batch select fails the invocation returns
\* {success: false, error} and does not raise; it has written no email and
\* emitted no event.
C14_SelectFailureReturnsFailure ==
  \A h \in Handlers :
    FailedOn(h, "select", 0) =>
      /\ pc[h] = "returned"
      /\ DOMAIN result[h] = {"success", "error"}
      /\ result[h].success = FALSE
      /\ \A j \in DOMAIN trace[h] : trace[h][j].op \notin PerEmailOps
      /\ variations_generated[h] = <<>>
      /\ \A r \in DOMAIN emails :
           \A v \in {emails[r].body_2, emails[r].body_3, emails[r].body_4} :
             v # NoBody => v[1] # h

\* the select of an invocation failed while the table holds a Scheduled email
C14_Witness ==
  \E h \in Handlers :
    /\ FailedOn(h, "select", 0)
    /\ pc[h] = "returned"
    /\ \E r \in DOMAIN emails : emails[r].status = "Scheduled" /\ emails[r].id # 0

\* the position of email e in the batch the store returned
Pos(h, e) == CHOOSE k \in DOMAIN email_response[h] : email_response[h][k].id = e

\* the place of an operation within one loop iteration
Rank(op) ==
  CASE op = "lead" -> 1
    [] op = "generate" -> 2
    [] op = "update" -> 3
    [] op = "emit" -> 4

\* C15: within one invocation the emails are processed one after another in
\* the order the store returned them. Read along the operations of the
\* invocation: an email's operations start with its lookup and go on in the
\* order lookup, adapter calls (at most three, one at a time), update, emit;
\* the invocation turns to another email only directly after the emit of the
\* current one (or after a lookup that found no lead), and that email is later
\* in the batch; so the update and the event of an email precede every
\* operation of the emails after it, and the events come in batch order.
C15_SequentialInBatchOrder ==
  \A h \in Handlers :
    LET t == trace[h]
        sent == variations_generated[h]
    IN  /\ \A j \in DOMAIN t :
             (t[j].op \in PerEmailOps /\ j < Len(t)) =>
               /\ t[j].ok
               /\ t[j + 1].op \in PerEmailOps
               /\ \/ /\ t[j + 1].email = t[j].email
                     /\ Rank(t[j + 1].op) \in {Rank(t[j].op), Rank(t[j].op) + 1}
                  \/ /\ Pos(h, t[j].email) < Pos(h, t[j + 1].email)
                     /\ t[j + 1].op = "lead"
                     /\ \/ t[j].op = "emit"
                        \/ /\ t[j].op = "lead"
                           /\ LeadMissing(email_response[h][Pos(h, t[j].email)])
        /\ \A j \in DOMAIN t :
             (t[j].op \in PerEmailOps /\ j > 1 /\ t[j - 1].op \notin PerEmailOps) =>
               t[j].op = "lead"
        /\ \A j \in DOMAIN t :
             (j + 3 <= Len(t) /\ t[j].op = "generate") =>
               \E i \in j + 1..j + 3 : t[i].op # "generate"
        /\ \A j \in DOMAIN sent :
             j < Len(sent) =>
               Pos(h, sent[j].data.emailId) < Pos(h, sent[j + 1].data.emailId)
        /\ Len(bodies[h]) <= 3

\* an invocation processed two emails that the store returned in the order
\* second row, first row, and emitted their events in that order
C15_Witness ==
  \E h \in Handlers :
    /\ pc[h] = "returned"
    /\ Len(email_response[h]) = 2
    /\ email_response[h][1].row > email_response[h][2].row
    /\ Len(variations_generated[h]) = 2
    /\ variations_generated[h][1].data.emailId = email_response[h][1].id
    /\ variations_generated[h][2].data.emailId = email_response[h][2].id

\* the JobQuery of a delivery whose dorks have been generated
Generated(q) == qpc[q] = "generated"

JobQueryOf(q) == parsed_query[q][1]

\* C16: generate_smart_dorks is a function of {role, location, limit}: equal
\* inputs give equal sequences; for every integer limit, zero and negative
\* ones included, the sequence has at most limit entries and, when role is
\* non-empty, at least one.
C16_DorksWithinLimit ==
  \A q \in Deliveries :
    Generated(q) =>
      LET p == JobQueryOf(q)
      IN  /\ Len(p.google_dorks) <= p.limit
          /\ p.role # <<>> => Len(p.google_dorks) >= 1
          /\ \A r \in Deliveries :
               ( /\ Generated(r)
                 /\ JobQueryOf(r).role = p.role
                 /\ JobQueryOf(r).location = p.location
                 /\ JobQueryOf(r).limit = p.limit )
                 => JobQueryOf(r).google_dorks = p.google_dorks

\* C16 as the code has it: equal inputs give equal sequences; three terms are
\* built and cut with the slice [:limit], so the length is min(limit, 3) for a
\* limit of at least 1 (between 1 and limit, for any role), 0 for limit 0 even
\* with a non-empty role, and max(3 + limit, 0), which is more than limit, for
\* a negative limit.
C16_DorksLengthBySlice ==
  \A q \in Deliveries :
    Generated(q) =>
      LET p == JobQueryOf(q)
          n == Len(p.google_dorks)
      IN  /\ p.limit >= 3 => n = 3
          /\ (p.limit >= 1 /\ p.limit < 3) => n = p.limit
          /\ p.limit >= 1 => (n >= 1 /\ n <= p.limit)
          /\ p.limit = 0 => n = 0
          /\ (p.limit < 0 /\ p.limit > 0 - 3) => (n = 3 + p.limit /\ n > p.limit)
          /\ p.limit <= 0 - 3 => (n = 0 /\ n > p.limit)
          /\ \A r \in Deliveries :
               ( /\ Generated(r)
                 /\ JobQueryOf(r).role = p.role
                 /\ JobQueryOf(r).location = p.location
                 /\ JobQueryOf(r).limit = p.limit )
                 => JobQueryOf(r).google_dorks = p.google_dorks

\* the dorks of a non-empty role have been generated under limit -1: two
\* entries come back
C16_Witness ==
  \E q \in Deliveries :
    /\ Generated(q)
    /\ JobQueryOf(q).role = <<"engineer">>
    /\ JobQueryOf(q).limit = 0 - 1
    /\ Len(JobQueryOf(q).google_dorks) = 2

RemoteSpellings == { <<"remote">>, <<"Remote">>, <<"REMOTE">> }

\* C17: with a limit of at least 1 and a non-empty location the first dork is
\* the base term, the role (in double quotes when it has more than one word,
\* bare when it has one) and the location in double quotes, separated by
\* single spaces; a location that is remote in any letter case is written as
\* the literal "remote".
C17_FirstDorkShape ==
  \A q \in Deliveries :
    (Generated(q) /\ JobQueryOf(q).limit >= 1 /\ JobQueryOf(q).location # <<>>) =>
      LET p == JobQueryOf(q)
          first == p.google_dorks[1]
          multi == \E k \in DOMAIN p.role : p.role[k] = " "
          role == IF multi THEN <<"\"">> \o p.role \o <<"\"">> ELSE p.role
          site == <<"site:workatastartup.com", " ">>
      IN  /\ p.location \in RemoteSpellings =>
               first = site \o role \o <<" ", "\"", "remote", "\"">>
          /\ p.location \notin RemoteSpellings =>
               first = site \o role \o <<" ", "\"">> \o p.location \o <<"\"">>
          /\ (p.role = <<"founding", " ", "engineer">>
                /\ p.location = <<"san", " ", "francisco">>) =>
               first = <<"site:workatastartup.com", " ", "\"", "founding", " ",
                         "engineer", "\"", " ", "\"", "san", " ", "francisco", "\"">>
          /\ (p.role = <<"engineer">> /\ p.location = <<"REMOTE">>) =>
               first = <<"site:workatastartup.com", " ", "engineer", " ",
                         "\"", "remote", "\"">>

\* the dorks of the two-word role with a capitalised Remote have been generated
C17_Witness ==
  \E q \in Deliveries :
    /\ Generated(q)
    /\ JobQueryOf(q).limit >= 1
    /\ JobQueryOf(q).role = <<"founding", " ", "engineer">>
    /\ JobQueryOf(q).location = <<"Remote">>
    /\ JobQueryOf(q).google_dorks[1]
         = <<"site:workatastartup.com", " ", "\"", "founding", " ", "engineer", "\"",
             " ", "\"", "remote", "\"">>

\* C18: every failed write to the jobs table is logged and swallowed: after a
\* failed mark-PROCESSING write or a failed parsed-fields write the handler
\* does not raise, does not take the ERROR path, and still emits and returns.
C18_FailedWriteSwallowed ==
  \A q \in Deliveries :
    (QDid(q, "write_processing", FALSE) \/ QDid(q, "write_parsed", FALSE)) =>
      /\ qpc[q] # "except"
      /\ ~QDid(q, "write_error", TRUE)
      /\ ~QDid(q, "write_error", FALSE)
      /\ qpc[q] = "raised" => QDid(q, "emit", FALSE)
      /\ qpc[q] = "returned" => emitted[q] # <<>>

StoreOps == {"write_processing", "create_client", "write_parsed", "write_error"}

\* C19: without store credentials the handler performs no store operation (no
\* PROCESSING write, no parsed-fields write, no ERROR write) and every Job
\* record stays as it was; the missing credentials alone never make it fail:
\* once extraction has succeeded it goes on to emit and return, and it raises
\* only for a missing event field, a failed extraction or a failed emit.
C19_NoCredentialsNoStore ==
  ~configured =>
    /\ jobs = [j \in JobIds |-> NewJob]
    /\ \A q \in Deliveries :
         /\ \A k \in DOMAIN qtrace[q] : qtrace[q][k].op \notin StoreOps
         /\ QDid(q, "extract", TRUE) =>
              \/ qpc[q] \in {"persist", "emit", "returned"}
              \/ qpc[q] = "raised" /\ QDid(q, "emit", FALSE)
         /\ qpc[q] = "returned" => (emitted[q] # <<>> /\ returned[q] # None)
         /\ qpc[q] \in {"except", "raised"} =>
              \/ ~args[q].has_query
              \/ ~args[q].has_jobId
              \/ QDid(q, "extract", FALSE)
              \/ QDid(q, "emit", FALSE)

\* without credentials a delivery was parsed, emitted and returned
C19_Witness ==
  /\ ~configured
  /\ \E q \in Deliveries :
       /\ qpc[q] = "returned"
       /\ QDid(q, "extract", TRUE)
       /\ emitted[q] # <<>>

\* C20: persist before emit: an invocation attempts the emit for an email only
\* directly after its own successful update of that email, so every event it
\* emitted is for an email whose body_2..4 it had written; when the update of
\* an email fails, the invocation emits no event for it.
C20_PersistBeforeEmit ==
  \A h \in Handlers :
    LET t == trace[h]
        sent == variations_generated[h]
    IN  /\ \A j \in DOMAIN t :
             t[j].op = "emit" => (j > 1 /\ t[j - 1] = Op("update", t[j].email, TRUE))
        /\ \A j \in DOMAIN sent :
             /\ Did(h, "update", sent[j].data.emailId)
             /\ \A r \in DOMAIN emails :
                  emails[r].id = sent[j].data.emailId =>
                    /\ emails[r].body_2 # NoBody
                    /\ emails[r].body_3 # NoBody
                    /\ emails[r].body_4 # NoBody
        /\ \A j \in DOMAIN t :
             (t[j].op = "update" /\ ~t[j].ok) =>
               /\ \A i \in DOMAIN t : ~(t[i].op = "emit" /\ t[i].email = t[j].email)
               /\ \A i \in DOMAIN sent : sent[i].data.emailId # t[j].email

\* an invocation emitted the event of its first email and then failed to
\* update its second
C20_Witness ==
  \E h \in Handlers :
    /\ Len(email_response[h]) = 2
    /\ Len(variations_generated[h]) = 1
    /\ variations_generated[h][1].data.emailId = email_response[h][1].id
    /\ FailedOn(h, "update", email_response[h][2].id)

\* C21: a step of the variation handler changes nothing in the store but
\* body_2, body_3 and body_4 of an email: every email keeps its id, status,
\* body_1 and lead_id; an email that changes is Scheduled, before and after,
\* and is a row of the batch selected by the invocation that is at its update;
\* the leads and jobs tables do not change.
C21_WritesOnlyVariantsOfSelected ==
  [][ /\ leads' = leads
      /\ jobs' = jobs
      /\ DOMAIN emails' = DOMAIN emails
      /\ \A r \in DOMAIN emails :
           /\ emails'[r].id = emails[r].id
           /\ emails'[r].status = emails[r].status
           /\ emails'[r].body_1 = emails[r].body_1
           /\ emails'[r].lead_id = emails[r].lead_id
           /\ emails'[r] # emails[r] =>
                /\ emails[r].status = "Scheduled"
                /\ \E h \in Handlers :
                     /\ pc[h] = "update"
                     /\ pc'[h] = "emit"
                     /\ \E k \in DOMAIN email_response[h] :
                          email_response[h][k].row = r ]_vars

\* an invocation returned after writing the variants of the one Scheduled
\* email, which is still Scheduled with its draft and lead, while the Draft
\* email beside it has no variants
C21_Witness ==
  \E h \in Handlers :
    \E r, d \in DOMAIN emails :
      /\ pc[h] = "returned"
      /\ result[h] = [success |-> TRUE, count |-> 1]
      /\ emails[r].status = "Scheduled"
      /\ emails[r].body_1 = "draft"
      /\ emails[r].lead_id \in LeadIds
      /\ emails[r].body_2 = generate_variation(h, 2)
      /\ emails[r].body_4 = generate_variation(h, 4)
      /\ emails[d].status = "Draft"
      /\ emails[d].body_2 = NoBody

====
